---- MODULE Spec2Model ----
(***************************************************************************)
(* Traffic Signal Coordinator (src/src/agents/signal_coordinator_agent.py) *)
(* as a state machine: the registry of intersections with their four       *)
(* signals, the coordination offset table, and one action per public       *)
(* method of TrafficSignalCoordinator.                                     *)
(*                                                                         *)
(* Numbers.  avg_congestion is a Python float in percent; the model holds  *)
(* it in hundredths of a percent (Pct(70) is 70.0, 6004 is 60.04), so that *)
(* values between two tenths exist.  avg_speed is drawn from integers.     *)
(* The green/red computation of optimize_signal_timing is float            *)
(* arithmetic followed by int().  Where the exact value of the expression  *)
(* is no integer the model computes it as an exact fraction num/den and    *)
(* truncates it; where it is an integer, as for queues (0, 10, 10, 10)     *)
(* under flow_priority, the roundings of the doubles decide on which side  *)
(* of the integer the result falls, and the model computes the doubles bit *)
(* by bit (GreenRedTimes).                                                 *)
(* Values the code rounds to one decimal are held in tenths (_x10).        *)
(***************************************************************************)
EXTENDS Integers, Sequences, FiniteSets, TLC

VARIABLES
    intersections,         \* self.intersections: id -> Intersection
    coordination_offsets,  \* self.coordination_offsets: id -> offset
    last,                  \* the last call: its name, arguments and result
    pre,                   \* intersections and coordination_offsets before the last call
    ops,                   \* number of calls made so far
    calls                  \* the calls in progress of the concurrent callers

vars == <<intersections, coordination_offsets, last, pre, ops, calls>>

\* Number of calls in one behaviour of Spec.
MaxOps == 2

----------------------------------------------------------------------------
\* Data

directions == <<"north", "south", "east", "west">>

Directions == {directions[i] : i \in 1..Len(directions)}

\* The IDs in the order _initialize_default_intersections inserts them.
default_intersections == <<"INT_001", "INT_002", "INT_003", "INT_004", "INT_005">>

IntersectionIds == {default_intersections[i] : i \in 1..Len(default_intersections)}

\* Two callers that use one TrafficSignalCoordinator at the same time.
Callers == {"caller_1", "caller_2"}

\* An ID the registry never holds.
UnknownIds == {"INT_999"}

AllIds == IntersectionIds \cup UnknownIds

Tiers == {"critical", "high", "normal", "low"}

\* dataclass TrafficSignal: the timing and optimisation fields with their
\* defaults (identity, coordinates, phase and road labels are never read by
\* the operations modelled here).
TrafficSignal ==
    [cycle_time |-> 120, red_time |-> 60, green_time |-> 50,
     yellow_time |-> 5, all_red_time |-> 5,
     min_green |-> 15, max_green |-> 80, adaptive_offset |-> 0]

\* avg_congestion: float, in hundredths of a percent.
Pct(percent) == 100 * percent

\* dataclass Intersection with its defaults and the four signals that
\* _initialize_default_intersections creates.
Intersection ==
    [signals |-> [d \in Directions |-> TrafficSignal],
     queue_length_north |-> 0, queue_length_south |-> 0,
     queue_length_east |-> 0, queue_length_west |-> 0,
     avg_speed |-> 30, avg_congestion |-> Pct(50),
     local_aqi |-> 100, priority_level |-> "normal"]

\* getattr(intersection, f'queue_length_{direction}')
QueueLength(intersection, direction) ==
    CASE direction = "north" -> intersection.queue_length_north
      [] direction = "south" -> intersection.queue_length_south
      [] direction = "east"  -> intersection.queue_length_east
      [] direction = "west"  -> intersection.queue_length_west

\* dict.get(key, default)
Get(dict, key, default) == IF key \in DOMAIN dict THEN dict[key] ELSE default

Max2(a, b) == IF a >= b THEN a ELSE b

\* max(north, south, east, west)
MaxQueue(intersection) ==
    Max2(Max2(intersection.queue_length_north, intersection.queue_length_south),
         Max2(intersection.queue_length_east, intersection.queue_length_west))

\* sum(queues)
SumQueues(intersection) ==
    intersection.queue_length_north + intersection.queue_length_south
        + intersection.queue_length_east + intersection.queue_length_west

\* int(num / den) for den > 0: truncation toward zero.
Trunc(num, den) == IF num >= 0 THEN num \div den ELSE -((-num) \div den)

Snapshot == [intersections |-> intersections,
             coordination_offsets |-> coordination_offsets]

RECURSIVE SumSeq(_)
\* sum(list)
SumSeq(s) == IF s = <<>> THEN 0 ELSE Head(s) + SumSeq(Tail(s))

\* list(self.intersections): the registry's keys in insertion order (a key
\* that is not a default one can only have been inserted after them).
RegistryKeys ==
    SelectSeq(default_intersections \o <<"INT_999">>,
              LAMBDA id : id \in DOMAIN intersections)

----------------------------------------------------------------------------
\* Priority Classifier

determine_priority_ge(congestion, aqi, max_queue) ==
    IF congestion >= Pct(70) \/ aqi >= 150 \/ max_queue >= 50 THEN "critical"
    ELSE IF congestion >= Pct(50) \/ aqi >= 100 \/ max_queue >= 30 THEN "high"
    ELSE IF congestion >= Pct(30) \/ aqi >= 50 THEN "normal"
    ELSE "low"

determine_priority_reordered(congestion, aqi, max_queue) ==
    IF congestion > Pct(30) \/ aqi > 50 THEN "normal"
    ELSE IF congestion > Pct(70) \/ aqi > 150 \/ max_queue > 50 THEN "critical"
    ELSE IF congestion > Pct(50) \/ aqi > 100 \/ max_queue > 30 THEN "high"
    ELSE "low"

\* Variant: a queue makes the intersection critical past 150 vehicles.
determine_priority_long_queue(congestion, aqi, max_queue) ==
    IF congestion > Pct(70) \/ aqi > 150 \/ max_queue > 150 THEN "critical"
    ELSE IF congestion > Pct(50) \/ aqi > 100 \/ max_queue > 30 THEN "high"
    ELSE IF congestion > Pct(30) \/ aqi > 50 THEN "normal"
    ELSE "low"

_determine_priority(congestion, aqi, max_queue) ==
    IF congestion > Pct(70) \/ aqi > 150 \/ max_queue > 50 THEN "critical"
    ELSE IF congestion > Pct(50) \/ aqi > 100 \/ max_queue > 30 THEN "high"
    ELSE IF congestion > Pct(30) \/ aqi > 50 THEN "normal"
    ELSE "low"

----------------------------------------------------------------------------
\* update_intersection_data

UpdatedStalePriority(intersection, traffic_data, pollution_level) ==
    LET queues == Get(traffic_data, "queues", [k \in {} |-> 0])
    IN [intersection EXCEPT
            !.queue_length_north = Get(queues, "north", 0),
            !.queue_length_south = Get(queues, "south", 0),
            !.queue_length_east  = Get(queues, "east", 0),
            !.queue_length_west  = Get(queues, "west", 0),
            !.avg_speed      = Get(traffic_data, "avg_speed", 30),
            !.avg_congestion = Get(traffic_data, "congestion", Pct(50)),
            !.local_aqi      = pollution_level]

UpdatedKeepWorst(intersection, traffic_data, pollution_level) ==
    LET queues == Get(traffic_data, "queues", [k \in {} |-> 0])
        new == [intersection EXCEPT
            !.queue_length_north = Get(queues, "north", 0),
            !.queue_length_south = Get(queues, "south", 0),
            !.queue_length_east  = Get(queues, "east", 0),
            !.queue_length_west  = Get(queues, "west", 0),
            !.avg_speed      = Get(traffic_data, "avg_speed", 30),
            !.avg_congestion = Get(traffic_data, "congestion", Pct(50)),
            !.local_aqi      = Max2(@, pollution_level)]
    IN [new EXCEPT !.priority_level =
            _determine_priority(new.avg_congestion, new.local_aqi, MaxQueue(new))]

\* The intersection as update_intersection_data leaves it: the fields it
\* assigns, then the recomputed priority.
Updated(intersection, traffic_data, pollution_level) ==
    LET queues == Get(traffic_data, "queues", [k \in {} |-> 0])
        new == [intersection EXCEPT
            !.queue_length_north = Get(queues, "north", 0),
            !.queue_length_south = Get(queues, "south", 0),
            !.queue_length_east  = Get(queues, "east", 0),
            !.queue_length_west  = Get(queues, "west", 0),
            !.avg_speed      = Get(traffic_data, "avg_speed", 30),
            !.avg_congestion = Get(traffic_data, "congestion", Pct(50)),
            !.local_aqi      = pollution_level]
    IN [new EXCEPT !.priority_level =
            _determine_priority(new.avg_congestion, pollution_level, MaxQueue(new))]

update_intersection_data_implicit(intersection_id, traffic_data, pollution_level) ==
    /\ pre' = Snapshot
    /\ ops' = ops + 1
    /\ intersections' =
          [id \in DOMAIN intersections \cup {intersection_id} |->
              IF id = intersection_id
              THEN Updated(IF id \in DOMAIN intersections
                           THEN intersections[id] ELSE Intersection,
                           traffic_data, pollution_level)
              ELSE intersections[id]]
    /\ UNCHANGED coordination_offsets
    /\ last' = [op |-> "update_intersection_data",
                intersection_id |-> intersection_id,
                traffic_data |-> traffic_data,
                pollution_level |-> pollution_level,
                ret |-> TRUE]

update_intersection_data(intersection_id, traffic_data, pollution_level) ==
    /\ pre' = Snapshot
    /\ ops' = ops + 1
    /\ IF intersection_id \notin DOMAIN intersections
       THEN /\ UNCHANGED <<intersections, coordination_offsets>>
            /\ last' = [op |-> "update_intersection_data",
                        intersection_id |-> intersection_id,
                        traffic_data |-> traffic_data,
                        pollution_level |-> pollution_level,
                        ret |-> FALSE]
       ELSE /\ intersections' =
                  [intersections EXCEPT ![intersection_id] =
                      Updated(@, traffic_data, pollution_level)]
            /\ UNCHANGED coordination_offsets
            /\ last' = [op |-> "update_intersection_data",
                        intersection_id |-> intersection_id,
                        traffic_data |-> traffic_data,
                        pollution_level |-> pollution_level,
                        ret |-> TRUE]

----------------------------------------------------------------------------
\* optimize_signal_timing

\* Variant: the congestion branch comes first.
StrategyFlowFirst(intersection) ==
    IF intersection.avg_congestion > Pct(60) THEN "flow_priority"
    ELSE IF intersection.local_aqi > 100 THEN "emission_priority"
    ELSE "balanced"

\* Variant: emission_priority from an AQI above 50.
StrategyEmissionFromModerate(intersection) ==
    IF intersection.local_aqi > 150 /\ intersection.avg_congestion > Pct(60)
    THEN "emission_priority"
    ELSE IF intersection.avg_congestion > Pct(60) THEN "flow_priority"
    ELSE IF intersection.local_aqi > 50 THEN "emission_priority"
    ELSE "balanced"

\* The if/elif chain that determines the optimisation strategy.
Strategy(intersection) ==
    IF intersection.local_aqi > 150 /\ intersection.avg_congestion > Pct(60)
    THEN "emission_priority"
    ELSE IF intersection.avg_congestion > Pct(60) THEN "flow_priority"
    ELSE IF intersection.local_aqi > 100 THEN "emission_priority"
    ELSE "balanced"

\* The base parameters assigned per strategy.
StrategyParams(strategy) ==
    CASE strategy = "emission_priority" ->
            [base_green |-> 70, base_red |-> 40, base_cycle |-> 120,
             emission_reduction |-> 18, flow_improvement |-> -5]
      [] strategy = "flow_priority" ->
            [base_green |-> 60, base_red |-> 50, base_cycle |-> 120,
             emission_reduction |-> 5, flow_improvement |-> 15]
      [] OTHER ->
            [base_green |-> 50, base_red |-> 60, base_cycle |-> 120,
             emission_reduction |-> 10, flow_improvement |-> 8]

\* total_queue = max(1, sum(queues))
TotalQueue(intersection) == Max2(1, SumQueues(intersection))

\* adjusted_green = max(15, min(80, base_green * (0.5 + queue / total_queue)))
\* as the exact fraction <<num, den>>, den = 2 * total_queue.
AdjustedGreenNoMax(base_green, queue, total_queue) ==
    LET den == 2 * total_queue
        num == base_green * (total_queue + 2 * queue)
    IN IF num < 15 * den THEN <<15 * den, den>> ELSE <<num, den>>

AdjustedGreen(base_green, queue, total_queue) ==
    LET den == 2 * total_queue
        num == base_green * (total_queue + 2 * queue)
        capped == IF 80 * den < num THEN 80 * den ELSE num
    IN <<Max2(15 * den, capped), den>>

\* adjusted_red = base_cycle - adjusted_green - 5, as a fraction over the
\* same denominator.
AdjustedRed(base_cycle, adjusted_green) ==
    <<(base_cycle - 5) * adjusted_green[2] - adjusted_green[1], adjusted_green[2]>>

\* ---- The same expression as Python evaluates it, in doubles. ----
\* A double is held as a binary fixed-point number: bits is the numerator,
\* most significant bit first, and frac the number of bits after the point
\* (the value is bits / 2^frac).  Every operation of the expression, the
\* division, the addition and the multiplication, is computed exactly and
\* then rounded to 53 significant bits, ties to the even neighbour.

\* Width of a double's significand.
SignificantBits == 53

RECURSIVE PowerOfTwoMod(_, _)
\* 2^n modulo t
PowerOfTwoMod(n, t) ==
    IF n = 0 THEN 1 % t
    ELSE LET half == PowerOfTwoMod(n \div 2, t)
         IN IF n % 2 = 0 THEN (half * half) % t ELSE (2 * half * half) % t

\* What is left of r / t after its first n bits after the point, as a
\* numerator over t (0 when the bits are all of it), for 0 <= r < t.
ExpandRemainder(r, t, n) == (r * PowerOfTwoMod(n, t)) % t

\* The first n bits after the point of r / t, for 0 <= r < t.
ExpandBits(r, t, n) ==
    [i \in 1..n |-> (2 * ExpandRemainder(r, t, i - 1)) \div t]

RECURSIVE LeadingZeros(_, _)
\* The number of 0 bits after the point of q / t before its first 1 bit,
\* for 0 < q < t.
LeadingZeros(q, t) == IF 2 * q >= t THEN 0 ELSE 1 + LeadingZeros(2 * q, t)

Zeros(n) == [i \in 1..n |-> 0]

\* bits + 1: the last 0 bit becomes 1 and the 1 bits after it become 0.
IncBits(bits) ==
    LET zero_positions == {i \in 1..Len(bits) : bits[i] = 0}
    IN IF zero_positions = {} THEN <<1>> \o Zeros(Len(bits))
       ELSE LET k == CHOOSE i \in zero_positions : \A j \in zero_positions : j <= i
            IN SubSeq(bits, 1, k - 1) \o <<1>> \o Zeros(Len(bits) - k)

\* bits without its leading 0 bits.
StripZeros(bits) ==
    LET one_positions == {i \in 1..Len(bits) : bits[i] = 1}
    IN IF one_positions = {} THEN << >>
       ELSE SubSeq(bits, CHOOSE i \in one_positions : \A j \in one_positions : i <= j,
                   Len(bits))

PadLeft(bits, n) == IF Len(bits) < n THEN Zeros(n - Len(bits)) \o bits ELSE bits

\* Round to nearest, ties to even: the first SignificantBits bits are kept,
\* and go up by one when the dropped part is more than half a unit, or is
\* half a unit and the last kept bit is 1.  sticky: the exact value has more
\* non-zero bits after those of bits.
RoundDouble(bits, frac, sticky) ==
    LET b == StripZeros(bits)
        dropped == Len(b) - SignificantBits
    IN IF dropped <= 0 THEN [bits |-> b, frac |-> frac]
       ELSE LET kept == SubSeq(b, 1, SignificantBits)
                more == sticky \/ \E i \in (SignificantBits + 2)..Len(b) : b[i] = 1
                up == /\ b[SignificantBits + 1] = 1
                      /\ more \/ kept[SignificantBits] = 1
            IN [bits |-> IF up THEN IncBits(kept) ELSE kept,
                frac |-> frac - dropped]

\* queue_proportion = queues[i] / total_queue, for 0 <= queue <= total_queue.
QueueProportion(queue, total_queue) ==
    IF queue = 0 THEN [bits |-> << >>, frac |-> 0]
    ELSE IF queue = total_queue THEN [bits |-> <<1>>, frac |-> 0]
    ELSE LET n == LeadingZeros(queue, total_queue) + SignificantBits + 1
         IN RoundDouble(ExpandBits(queue, total_queue, n), n,
                        ExpandRemainder(queue, total_queue, n) # 0)

\* 0.5 + x: one is added at the first bit after the point.
HalfPlus(x) ==
    LET frac == Max2(x.frac, 1)
        bits == PadLeft(x.bits \o Zeros(frac - x.frac), frac)
        through_half == Len(bits) - frac + 1
    IN RoundDouble(IncBits(SubSeq(bits, 1, through_half))
                       \o SubSeq(bits, through_half + 1, Len(bits)),
                   frac, FALSE)

RECURSIVE BitsValue(_)
\* The number whose binary digits are bits.
BitsValue(bits) ==
    IF bits = << >> THEN 0
    ELSE 2 * BitsValue(SubSeq(bits, 1, Len(bits) - 1)) + bits[Len(bits)]

RECURSIVE PowerOfTwo(_)
PowerOfTwo(n) == IF n = 0 THEN 1 ELSE 2 * PowerOfTwo(n - 1)

\* The n-digit binary form of v < 2^n.
BitsOf(v, n) == [i \in 1..n |-> (v \div PowerOfTwo(n - i)) % 2]

RECURSIVE TimesBits(_, _, _)
\* bits * factor + carry, sixteen bits at a time from the right.
TimesBits(bits, factor, carry) ==
    IF Len(bits) <= 16
    THEN BitsOf(BitsValue(bits) * factor + carry, Len(bits) + 8)
    ELSE LET v == BitsValue(SubSeq(bits, Len(bits) - 15, Len(bits))) * factor + carry
         IN TimesBits(SubSeq(bits, 1, Len(bits) - 16), factor, v \div PowerOfTwo(16))
            \o BitsOf(v % PowerOfTwo(16), 16)

\* base_green * x
Times(base_green, x) ==
    RoundDouble(TimesBits(x.bits, base_green, 0), x.frac, FALSE)

\* int(x) for a double x >= 0 with frac >= 0.
IntegerPart(x) == BitsValue(SubSeq(x.bits, 1, Len(x.bits) - x.frac))

\* The bits after the point of a double of at least 1.
FractionBits(x) == SubSeq(x.bits, Len(x.bits) - x.frac + 1, Len(x.bits))

\* base_cycle - x for a double x below the integer base_cycle: with bits
\* after the point, one is borrowed and those bits are complemented and
\* incremented.
CycleMinus(base_cycle, x) ==
    LET fraction == FractionBits(x)
    IN IF \A i \in 1..Len(fraction) : fraction[i] = 0
       THEN RoundDouble(BitsOf(base_cycle - IntegerPart(x), 8), 0, FALSE)
       ELSE RoundDouble(BitsOf(base_cycle - 1 - IntegerPart(x), 8)
                            \o IncBits([i \in 1..Len(fraction) |-> 1 - fraction[i]]),
                        x.frac, FALSE)

\* x - yellow for a double x of at least yellow + 1.
MinusYellow(x, yellow) ==
    RoundDouble(BitsOf(IntegerPart(x) - yellow, 8) \o FractionBits(x), x.frac, FALSE)

\* int(adjusted_green) and int(adjusted_red) in doubles, where
\* adjusted_green = max(15, min(80, base_green * (0.5 + queue_proportion)))
\* and adjusted_red = base_cycle - adjusted_green - 5.  max and min return
\* one of their arguments, so adjusted_green is 15, 80 or the product.
DoubleTimes(base_cycle, base_green, queue, total_queue) ==
    LET product == Times(base_green, HalfPlus(QueueProportion(queue, total_queue)))
        whole == IntegerPart(product)
    IN IF whole < 15 THEN [green_time |-> 15, red_time |-> base_cycle - 15 - 5]
       ELSE IF whole >= 80 THEN [green_time |-> 80, red_time |-> base_cycle - 80 - 5]
       ELSE [green_time |-> whole,
             red_time |-> IntegerPart(MinusYellow(CycleMinus(base_cycle, product), 5))]

\* int(adjusted_green) and int(adjusted_red).  A queue_proportion of 0.0 or
\* 1.0 makes every double of the expression exact (0.5 or 1.5, then
\* base_green times that).  When the exact value of base_green * (0.5 +
\* queue / total_queue) is no integer, it is at least 1 / (2 * total_queue)
\* away from one, far more than the roundings add up to, and the doubles
\* have the integer parts of the exact values.  When it is an integer the
\* roundings decide: a product just below it leaves the green time one
\* second short, a product just above it the red time.
GreenRedTimes(base_cycle, base_green, queue, total_queue) ==
    IF \/ queue = 0
       \/ queue = total_queue
       \/ (base_green * (total_queue + 2 * queue)) % (2 * total_queue) # 0
    THEN LET adjusted_green == AdjustedGreen(base_green, queue, total_queue)
             adjusted_red == AdjustedRed(base_cycle, adjusted_green)
         IN [green_time |-> Trunc(adjusted_green[1], adjusted_green[2]),
             red_time |-> Trunc(adjusted_red[1], adjusted_red[2])]
    ELSE DoubleTimes(base_cycle, base_green, queue, total_queue)

\* Variant: a share of 0.35 is flagged too.
SharePriorityAtLeast(queue, total_queue) ==
    IF 20 * queue >= 7 * total_queue THEN "high" ELSE "normal"

\* 'high' if queue_proportion > 0.35 else 'normal'.  The double of a share of
\* exactly 7/20 is the double of the literal 0.35, and every other share is
\* at least 1 / (20 * total_queue) away from it, so the comparison of the
\* doubles is the comparison of the exact values.
SharePriority(queue, total_queue) ==
    IF 20 * queue > 7 * total_queue THEN "high" ELSE "normal"

\* signal_timings[direction]
SignalTiming(intersection, direction) ==
    LET params == StrategyParams(Strategy(intersection))
        queue == QueueLength(intersection, direction)
        total_queue == TotalQueue(intersection)
        times == GreenRedTimes(params.base_cycle, params.base_green, queue, total_queue)
    IN [green_time |-> times.green_time,
        red_time |-> times.red_time,
        yellow_time |-> 5,
        all_red_time |-> 3,
        cycle_time |-> params.base_cycle,
        queue_length |-> queue,
        priority |-> SharePriority(queue, total_queue)]

\* The plan optimize_signal_timing returns for a known intersection (the
\* timestamp is left out).
OptimizedPlan(intersection_id, intersection) ==
    LET params == StrategyParams(Strategy(intersection))
    IN [intersection_id |-> intersection_id,
        signal_timings |-> [d \in Directions |-> SignalTiming(intersection, d)],
        strategy |-> Strategy(intersection),
        emission_reduction |-> params.emission_reduction,
        flow_improvement |-> params.flow_improvement,
        urgency |-> intersection.priority_level]

\* Variant: the loop stores a new TrafficSignal that carries the timings.
OptimizedNewSignals(intersection) ==
    [intersection EXCEPT !.signals =
        [d \in Directions |->
            [TrafficSignal EXCEPT
                !.green_time = SignalTiming(intersection, d).green_time,
                !.red_time   = SignalTiming(intersection, d).red_time,
                !.cycle_time = SignalTiming(intersection, d).cycle_time]]]

\* The intersection after the loop has written the timings to its signals.
Optimized(intersection) ==
    [intersection EXCEPT !.signals =
        [d \in Directions |->
            [@[d] EXCEPT
                !.green_time = SignalTiming(intersection, d).green_time,
                !.red_time   = SignalTiming(intersection, d).red_time,
                !.cycle_time = SignalTiming(intersection, d).cycle_time]]]

optimize_signal_timing_implicit(intersection_id) ==
    LET intersection == IF intersection_id \in DOMAIN intersections
                        THEN intersections[intersection_id] ELSE Intersection
    IN /\ pre' = Snapshot
       /\ ops' = ops + 1
       /\ intersections' =
             [id \in DOMAIN intersections \cup {intersection_id} |->
                 IF id = intersection_id THEN Optimized(intersection)
                 ELSE intersections[id]]
       /\ UNCHANGED coordination_offsets
       /\ last' = [op |-> "optimize_signal_timing",
                   intersection_id |-> intersection_id,
                   ret |-> OptimizedPlan(intersection_id, intersection)]

optimize_signal_timing(intersection_id) ==
    /\ pre' = Snapshot
    /\ ops' = ops + 1
    /\ IF intersection_id \notin DOMAIN intersections
       THEN /\ UNCHANGED <<intersections, coordination_offsets>>
            /\ last' = [op |-> "optimize_signal_timing",
                        intersection_id |-> intersection_id,
                        ret |-> [error |-> "Intersection not found"]]
       ELSE /\ intersections' =
                  [intersections EXCEPT ![intersection_id] = Optimized(@)]
            /\ UNCHANGED coordination_offsets
            /\ last' = [op |-> "optimize_signal_timing",
                        intersection_id |-> intersection_id,
                        ret |-> OptimizedPlan(intersection_id,
                                              intersections[intersection_id])]

----------------------------------------------------------------------------
\* coordinate_green_wave

\* round(num / den, 1) in tenths, for num >= 0 and den > 0.  A tie is rounded
\* to the even tenth, as Python does for a value a double holds exactly (the
\* quotients the model produces tie only at quarters).
RoundTenths(num, den) ==
    LET q == (10 * num) \div den
        r == (10 * num) % den
    IN IF 2 * r > den THEN q + 1
       ELSE IF 2 * r < den THEN q
       ELSE IF q % 2 = 0 THEN q ELSE q + 1

\* The positions of the list whose ID is in the registry (the loop skips the
\* others).
KnownPositions(intersection_ids) ==
    {i \in 1..Len(intersection_ids) : intersection_ids[i] \in DOMAIN intersections}

\* offset = int(i * travel_time_per_intersection), i counted from 0, with
\* travel_time_per_intersection = (1.0 / target_speed) * 60.
\* On the speeds and positions the model draws the double product has the
\* integer part of the exact quotient; at position 7 and speeds 21, 42 and 84
\* the double falls just below an integer and int() gives one less.
Offset(intersection_ids, i, target_speed) == Trunc(60 * (i - 1), target_speed)

\* The last position of an ID in the list: a later iteration overwrites the
\* offset an earlier one stored.
LastPosition(intersection_ids, int_id) ==
    CHOOSE i \in KnownPositions(intersection_ids) :
        /\ intersection_ids[i] = int_id
        /\ \A j \in KnownPositions(intersection_ids) :
              intersection_ids[j] = int_id => j <= i

\* offsets: the dictionary the loop builds.
Offsets(intersection_ids, target_speed) ==
    [int_id \in {intersection_ids[i] : i \in KnownPositions(intersection_ids)} |->
        Offset(intersection_ids, LastPosition(intersection_ids, int_id), target_speed)]

\* Variant: the corridor spans only the IDs found in the registry.
GreenWavePlanKnownOnly(intersection_ids, target_speed) ==
    LET found == Cardinality(KnownPositions(intersection_ids))
    IN [intersections |-> intersection_ids,
        offsets_seconds |-> Offsets(intersection_ids, target_speed),
        target_speed_kmph |-> target_speed,
        expected_travel_time_minutes_x10 |->
            RoundTenths(60 * Max2(found - 1, 0), target_speed),
        total_corridor_distance_km |-> Max2(found - 1, 0),
        stops_reduced_percent_x10 |-> IF found > 0 THEN 120 ELSE 0,
        emissions_reduced_percent_x10 |-> IF found > 0 THEN 80 ELSE 0,
        coordination_status |-> "active"]

\* The plan coordinate_green_wave returns (corridor name, echo of the
\* arguments and timestamp left out); the three rounded values are in tenths.
GreenWavePlan(intersection_ids, target_speed) ==
    LET n == Len(intersection_ids)
        found == Cardinality(KnownPositions(intersection_ids))
    IN [intersections |-> intersection_ids,
        offsets_seconds |-> Offsets(intersection_ids, target_speed),
        target_speed_kmph |-> target_speed,
        expected_travel_time_minutes_x10 |-> RoundTenths(60 * (n - 1), target_speed),
        total_corridor_distance_km |-> n - 1,
        stops_reduced_percent_x10 |-> RoundTenths(12 * found, n),
        emissions_reduced_percent_x10 |-> RoundTenths(8 * found, n),
        coordination_status |-> "active"]

\* Variant: the table is replaced by the offsets of this call.
StoredOffsetsReplaced(table, offsets) == offsets

\* self.coordination_offsets[int_id] = offset, for every ID of offsets: the
\* entries of other IDs stay.
StoredOffsets(table, offsets) ==
    [id \in DOMAIN table \cup DOMAIN offsets |->
        IF id \in DOMAIN offsets THEN offsets[id] ELSE table[id]]

\* Variant: the offset is stored on the first signal of the intersection only.
coordinate_green_wave_north_only(intersection_ids, target_speed) ==
    /\ pre' = Snapshot
    /\ ops' = ops + 1
    /\ IF Len(intersection_ids) < 2
       THEN /\ UNCHANGED <<intersections, coordination_offsets>>
            /\ last' = [op |-> "coordinate_green_wave",
                        intersection_ids |-> intersection_ids,
                        target_speed |-> target_speed,
                        ret |-> [error |-> "Need at least 2 intersections for green wave"]]
       ELSE IF target_speed = 0
       THEN \* (distance_between / target_speed) raises before the loop
            /\ UNCHANGED <<intersections, coordination_offsets>>
            /\ last' = [op |-> "coordinate_green_wave",
                        intersection_ids |-> intersection_ids,
                        target_speed |-> target_speed,
                        ret |-> [raised |-> "ZeroDivisionError"]]
       ELSE LET offsets == Offsets(intersection_ids, target_speed)
            IN /\ coordination_offsets' =
                     StoredOffsets(coordination_offsets, offsets)
               /\ intersections' =
                     [id \in DOMAIN intersections |->
                         IF id \in DOMAIN offsets
                         THEN [intersections[id] EXCEPT !.signals =
                                 [@ EXCEPT !["north"].adaptive_offset = offsets[id]]]
                         ELSE intersections[id]]
               /\ last' = [op |-> "coordinate_green_wave",
                           intersection_ids |-> intersection_ids,
                           target_speed |-> target_speed,
                           ret |-> GreenWavePlan(intersection_ids, target_speed)]

coordinate_green_wave(intersection_ids, target_speed) ==
    /\ pre' = Snapshot
    /\ ops' = ops + 1
    /\ IF Len(intersection_ids) < 2
       THEN /\ UNCHANGED <<intersections, coordination_offsets>>
            /\ last' = [op |-> "coordinate_green_wave",
                        intersection_ids |-> intersection_ids,
                        target_speed |-> target_speed,
                        ret |-> [error |-> "Need at least 2 intersections for green wave"]]
       ELSE IF target_speed = 0
       THEN \* (distance_between / target_speed) raises before the loop
            /\ UNCHANGED <<intersections, coordination_offsets>>
            /\ last' = [op |-> "coordinate_green_wave",
                        intersection_ids |-> intersection_ids,
                        target_speed |-> target_speed,
                        ret |-> [raised |-> "ZeroDivisionError"]]
       ELSE LET offsets == Offsets(intersection_ids, target_speed)
            IN /\ coordination_offsets' =
                     StoredOffsets(coordination_offsets, offsets)
               /\ intersections' =
                     [id \in DOMAIN intersections |->
                         IF id \in DOMAIN offsets
                         THEN [intersections[id] EXCEPT !.signals =
                                 [d \in DOMAIN @ |->
                                     [@[d] EXCEPT !.adaptive_offset = offsets[id]]]]
                         ELSE intersections[id]]
               /\ last' = [op |-> "coordinate_green_wave",
                           intersection_ids |-> intersection_ids,
                           target_speed |-> target_speed,
                           ret |-> GreenWavePlan(intersection_ids, target_speed)]

----------------------------------------------------------------------------
\* detect_conflicts

queue_capacity == 100

\* Variant: a queue of exactly queue_capacity * 1.5 is already critical.
QueueOverflowCriticalAt(intersection, direction) ==
    LET queue == QueueLength(intersection, direction)
    IN IF queue > queue_capacity
       THEN << [type |-> "queue_overflow",
                direction |-> direction,
                severity |-> IF 2 * queue >= 3 * queue_capacity
                             THEN "critical" ELSE "high",
                queue_length |-> queue,
                capacity |-> queue_capacity] >>
       ELSE << >>

\* Conflict 1 for one direction: a one-element list, or the empty list.
QueueOverflow(intersection, direction) ==
    LET queue == QueueLength(intersection, direction)
    IN IF queue > queue_capacity
       THEN << [type |-> "queue_overflow",
                direction |-> direction,
                \* queue > queue_capacity * 1.5
                severity |-> IF 2 * queue > 3 * queue_capacity
                             THEN "critical" ELSE "high",
                queue_length |-> queue,
                capacity |-> queue_capacity] >>
       ELSE << >>

\* Variant: the other three rules are looked at only when no queue overflows.
ConflictsOverflowFirst(intersection) ==
    LET overflow ==
            QueueOverflow(intersection, "north") \o QueueOverflow(intersection, "south")
            \o QueueOverflow(intersection, "east") \o QueueOverflow(intersection, "west")
    IN IF overflow # << >> THEN overflow
       ELSE (IF \/ intersection.queue_length_north > 20 /\ intersection.queue_length_south > 20
                \/ intersection.queue_length_east > 20 /\ intersection.queue_length_west > 20
             THEN << [type |-> "opposing_flows_blocked", severity |-> "high"] >>
             ELSE << >>)
            \o (IF intersection.avg_congestion > Pct(70)
                THEN << [type |-> "high_congestion", severity |-> "high",
                         congestion_percent |-> intersection.avg_congestion] >>
                ELSE << >>)
            \o (IF intersection.local_aqi > 200
                THEN << [type |-> "air_quality_emergency", severity |-> "critical",
                         aqi |-> intersection.local_aqi] >>
                ELSE << >>)

\* The list detect_conflicts builds for a known intersection (remediation
\* texts left out).
Conflicts(intersection) ==
    QueueOverflow(intersection, "north") \o QueueOverflow(intersection, "south")
    \o QueueOverflow(intersection, "east") \o QueueOverflow(intersection, "west")
    \o (IF \/ intersection.queue_length_north > 20 /\ intersection.queue_length_south > 20
           \/ intersection.queue_length_east > 20 /\ intersection.queue_length_west > 20
        THEN << [type |-> "opposing_flows_blocked", severity |-> "high"] >>
        ELSE << >>)
    \o (IF intersection.avg_congestion > Pct(70)
        THEN << [type |-> "high_congestion", severity |-> "high",
                 congestion_percent |-> intersection.avg_congestion] >>
        ELSE << >>)
    \o (IF intersection.local_aqi > 200
        THEN << [type |-> "air_quality_emergency", severity |-> "critical",
                 aqi |-> intersection.local_aqi] >>
        ELSE << >>)

\* The value detect_conflicts returns.
DetectConflicts(intersection_id) ==
    IF intersection_id \notin DOMAIN intersections THEN << >>
    ELSE Conflicts(intersections[intersection_id])

\* Variant: an unknown ID is looked up with a default and so enters the
\* registry.
detect_conflicts_implicit(intersection_id) ==
    /\ pre' = Snapshot
    /\ ops' = ops + 1
    /\ intersections' =
          [id \in DOMAIN intersections \cup {intersection_id} |->
              IF id \in DOMAIN intersections THEN intersections[id] ELSE Intersection]
    /\ UNCHANGED coordination_offsets
    /\ last' = [op |-> "detect_conflicts",
                intersection_id |-> intersection_id,
                ret |-> IF intersection_id \in DOMAIN intersections
                        THEN Conflicts(intersections[intersection_id])
                        ELSE Conflicts(Intersection)]

detect_conflicts(intersection_id) ==
    /\ pre' = Snapshot
    /\ ops' = ops + 1
    /\ UNCHANGED <<intersections, coordination_offsets>>
    /\ last' = [op |-> "detect_conflicts",
                intersection_id |-> intersection_id,
                ret |-> DetectConflicts(intersection_id)]

----------------------------------------------------------------------------
\* get_corridor_status

\* The known IDs of the list, in list order (the loop skips the others).
KnownOf(corridor_intersections) ==
    SelectSeq(corridor_intersections, LAMBDA id : id \in DOMAIN intersections)

\* Variant: conflicts_detected counts the intersections that have a conflict.
CorridorStatusConflictFlags(corridor_intersections) ==
    LET known == KnownOf(corridor_intersections)
        n == Len(known)
        total_congestion ==
            SumSeq([i \in 1..n |-> intersections[known[i]].avg_congestion])
        total_aqi == SumSeq([i \in 1..n |-> intersections[known[i]].local_aqi])
        total_conflicts ==
            SumSeq([i \in 1..n |-> IF DetectConflicts(known[i]) # << >> THEN 1 ELSE 0])
        avg_congestion_x10 == IF n > 0 THEN RoundTenths(total_congestion, 100 * n) ELSE 0
    IN [intersections |-> Len(corridor_intersections),
        avg_congestion_x10 |-> avg_congestion_x10,
        avg_aqi |-> IF n > 0 THEN Trunc(total_aqi, n) ELSE 0,
        total_vehicles_queued |->
            SumSeq([i \in 1..n |-> SumQueues(intersections[known[i]])]),
        intersections_status |->
            [i \in 1..n |->
                [id |-> known[i],
                 congestion_x10 |->
                     RoundTenths(intersections[known[i]].avg_congestion, 100),
                 aqi |-> intersections[known[i]].local_aqi,
                 queued_vehicles |-> SumQueues(intersections[known[i]]),
                 priority |-> intersections[known[i]].priority_level,
                 conflicts |-> Len(DetectConflicts(known[i]))]],
        conflicts_detected |-> total_conflicts,
        optimization_needed |-> (total_conflicts > 0 \/ avg_congestion_x10 > 600)]

\* corridor_data as returned (names left out); avg_congestion is in tenths.
CorridorStatus(corridor_intersections) ==
    LET known == KnownOf(corridor_intersections)
        n == Len(known)
        total_congestion ==
            SumSeq([i \in 1..n |-> intersections[known[i]].avg_congestion])
        total_aqi == SumSeq([i \in 1..n |-> intersections[known[i]].local_aqi])
        total_conflicts ==
            SumSeq([i \in 1..n |-> Len(DetectConflicts(known[i]))])
        avg_congestion_x10 == IF n > 0 THEN RoundTenths(total_congestion, 100 * n) ELSE 0
    IN [intersections |-> Len(corridor_intersections),
        avg_congestion_x10 |-> avg_congestion_x10,
        avg_aqi |-> IF n > 0 THEN Trunc(total_aqi, n) ELSE 0,
        total_vehicles_queued |->
            SumSeq([i \in 1..n |-> SumQueues(intersections[known[i]])]),
        intersections_status |->
            [i \in 1..n |->
                [id |-> known[i],
                 congestion_x10 |->
                     RoundTenths(intersections[known[i]].avg_congestion, 100),
                 aqi |-> intersections[known[i]].local_aqi,
                 queued_vehicles |-> SumQueues(intersections[known[i]]),
                 priority |-> intersections[known[i]].priority_level,
                 conflicts |-> Len(DetectConflicts(known[i]))]],
        conflicts_detected |-> total_conflicts,
        optimization_needed |-> (total_conflicts > 0 \/ avg_congestion_x10 > 600)]

get_corridor_status(corridor_intersections) ==
    /\ pre' = Snapshot
    /\ ops' = ops + 1
    /\ UNCHANGED <<intersections, coordination_offsets>>
    /\ last' = [op |-> "get_corridor_status",
                corridor_intersections |-> corridor_intersections,
                ret |-> CorridorStatus(corridor_intersections)]

----------------------------------------------------------------------------
\* generate_signal_plan

\* current_time when the loop reaches the i-th direction.
TimelineStart(intersection, i) ==
    SumSeq([j \in 1..(i - 1) |->
        intersection.signals[directions[j]].green_time
            + intersection.signals[directions[j]].yellow_time
            + intersection.signals[directions[j]].all_red_time])

\* The plan generate_signal_plan returns for a known intersection (name and
\* timestamp left out).
SignalPlan(intersection_id, intersection) ==
    [intersection_id |-> intersection_id,
     cycle_timeline |->
        [i \in 1..Len(directions) |->
            [phase |-> "GREEN",
             direction |-> directions[i],
             start |-> TimelineStart(intersection, i),
             duration |-> intersection.signals[directions[i]].green_time,
             end |-> TimelineStart(intersection, i)
                        + intersection.signals[directions[i]].green_time]],
     total_cycle_time |->
        SumSeq([i \in 1..Len(directions) |->
                    intersection.signals[directions[i]].cycle_time]) \div 4,
     adaptive_offsets |->
        [d \in DOMAIN intersection.signals |-> intersection.signals[d].adaptive_offset],
     estimated_wait_times_seconds |->
        [d \in Directions |-> Trunc(intersection.signals[d].red_time, 2)],
     priority_level |-> intersection.priority_level]

\* Variant: the plan of an unknown ID is built from a new default
\* intersection, which stays in the registry.
generate_signal_plan_implicit(intersection_id) ==
    /\ pre' = Snapshot
    /\ ops' = ops + 1
    /\ intersections' =
          [id \in DOMAIN intersections \cup {intersection_id} |->
              IF id \in DOMAIN intersections THEN intersections[id] ELSE Intersection]
    /\ UNCHANGED coordination_offsets
    /\ last' = [op |-> "generate_signal_plan",
                intersection_id |-> intersection_id,
                ret |-> SignalPlan(intersection_id,
                                   IF intersection_id \in DOMAIN intersections
                                   THEN intersections[intersection_id]
                                   ELSE Intersection)]

generate_signal_plan(intersection_id) ==
    /\ pre' = Snapshot
    /\ ops' = ops + 1
    /\ UNCHANGED <<intersections, coordination_offsets>>
    /\ last' = [op |-> "generate_signal_plan",
                intersection_id |-> intersection_id,
                ret |-> IF intersection_id \notin DOMAIN intersections
                        THEN [error |-> "Intersection not found"]
                        ELSE SignalPlan(intersection_id,
                                        intersections[intersection_id])]

----------------------------------------------------------------------------
\* get_network_status

\* Variant: high_priority_intersections counts the tier "high" alone.
NetworkStatusHighOnly ==
    LET keys == RegistryKeys
        n == Len(keys)
    IN IF n = 0 THEN [error |-> "No intersections configured"]
       ELSE
       [total_intersections |-> Cardinality(DOMAIN intersections),
        avg_network_congestion_percent_x10 |->
            RoundTenths(SumSeq([i \in 1..n |-> intersections[keys[i]].avg_congestion]), 100 * n),
        avg_network_aqi |->
            Trunc(SumSeq([i \in 1..n |-> intersections[keys[i]].local_aqi]), n),
        total_vehicles_queued |->
            SumSeq([i \in 1..n |-> SumQueues(intersections[keys[i]])]),
        critical_intersections |->
            Cardinality({i \in 1..n :
                intersections[keys[i]].priority_level = "critical"}),
        high_priority_intersections |->
            Cardinality({i \in 1..n :
                intersections[keys[i]].priority_level = "high"}),
        optimization_mode |-> "balanced",
        intersections_summary |->
            [i \in 1..n |->
                [id |-> keys[i],
                 congestion_x10 |->
                     RoundTenths(intersections[keys[i]].avg_congestion, 100),
                 aqi |-> intersections[keys[i]].local_aqi,
                 priority |-> intersections[keys[i]].priority_level]]]

\* The record get_network_status returns (names and timestamp left out);
\* avg_network_congestion_percent is in tenths.
NetworkStatus ==
    LET keys == RegistryKeys
        n == Len(keys)
    IN IF n = 0 THEN [error |-> "No intersections configured"]
       ELSE
       [total_intersections |-> Cardinality(DOMAIN intersections),
        avg_network_congestion_percent_x10 |->
            RoundTenths(SumSeq([i \in 1..n |-> intersections[keys[i]].avg_congestion]), 100 * n),
        avg_network_aqi |->
            Trunc(SumSeq([i \in 1..n |-> intersections[keys[i]].local_aqi]), n),
        total_vehicles_queued |->
            SumSeq([i \in 1..n |-> SumQueues(intersections[keys[i]])]),
        critical_intersections |->
            Cardinality({i \in 1..n :
                intersections[keys[i]].priority_level = "critical"}),
        high_priority_intersections |->
            Cardinality({i \in 1..n :
                intersections[keys[i]].priority_level \in {"critical", "high"}}),
        optimization_mode |-> "balanced",
        intersections_summary |->
            [i \in 1..n |->
                [id |-> keys[i],
                 congestion_x10 |->
                     RoundTenths(intersections[keys[i]].avg_congestion, 100),
                 aqi |-> intersections[keys[i]].local_aqi,
                 priority |-> intersections[keys[i]].priority_level]]]

get_network_status ==
    /\ pre' = Snapshot
    /\ ops' = ops + 1
    /\ UNCHANGED <<intersections, coordination_offsets>>
    /\ last' = [op |-> "get_network_status", ret |-> NetworkStatus]

----------------------------------------------------------------------------
\* Inputs

\* traffic_data / pollution_level pairs of the system specification: one per
\* priority tier and optimisation strategy, plus dictionaries with keys
\* missing.
Readings ==
    { \* dashboard_streamlit.py tab4, INT_001
      [traffic_data |-> [queues |-> [north |-> 35, south |-> 25, east |-> 20, west |-> 28],
                         avg_speed |-> 20, congestion |-> Pct(53)],
       pollution_level |-> 120],
      [traffic_data |-> [queues |-> [north |-> 120, south |-> 0, east |-> 0, west |-> 0],
                         avg_speed |-> 10, congestion |-> Pct(75)],
       pollution_level |-> 210],
      [traffic_data |-> [queues |-> [north |-> 25, south |-> 25, east |-> 25, west |-> 25],
                         avg_speed |-> 25, congestion |-> Pct(65)],
       pollution_level |-> 90],
      [traffic_data |-> [queues |-> [north |-> 0, south |-> 0, east |-> 0, west |-> 0],
                         avg_speed |-> 40, congestion |-> Pct(20)],
       pollution_level |-> 40],
      [traffic_data |-> [queues |-> [north |-> 40]],
       pollution_level |-> 60],
      [traffic_data |-> [k \in {} |-> 0],
       pollution_level |-> 100] }

----------------------------------------------------------------------------
\* Specification

Init ==
    /\ intersections = [id \in IntersectionIds |-> Intersection]
    /\ coordination_offsets = [id \in {} |-> 0]
    /\ last = [op |-> "init"]
    /\ pre = [intersections |-> [id \in IntersectionIds |-> Intersection],
              coordination_offsets |-> [id \in {} |-> 0]]
    /\ ops = 0
    /\ calls = [t \in Callers |-> [pc |-> "idle"]]

\* Ordered ID lists for corridor calls: all known, too short, with unknown
\* IDs before and between known ones, and with an ID repeated.
CorridorLists ==
    { <<"INT_001", "INT_003", "INT_005">>,
      <<"INT_001">>,
      <<"INT_999", "INT_002">>,
      <<"INT_002", "INT_999", "INT_001">>,
      <<"INT_003", "INT_004", "INT_003">>,
      <<"INT_999", "INT_999">> }

\* target_speed values (km/h); 0 is the degenerate one.
TargetSpeeds == {30, 35, 0}

Update ==
    /\ ops < MaxOps
    /\ \E id \in AllIds, r \in Readings :
          update_intersection_data(id, r.traffic_data, r.pollution_level)
    /\ UNCHANGED calls

Optimize ==
    /\ ops < MaxOps
    /\ \E id \in AllIds : optimize_signal_timing(id)
    /\ UNCHANGED calls

Coordinate ==
    /\ ops < MaxOps
    /\ \E ids \in CorridorLists, speed \in TargetSpeeds :
          coordinate_green_wave(ids, speed)
    /\ UNCHANGED calls

Detect ==
    /\ ops < MaxOps
    /\ \E id \in AllIds : detect_conflicts(id)
    /\ UNCHANGED calls

CorridorStatusCall ==
    /\ ops < MaxOps
    /\ \E ids \in CorridorLists : get_corridor_status(ids)
    /\ UNCHANGED calls

SignalPlanCall ==
    /\ ops < MaxOps
    /\ \E id \in AllIds : generate_signal_plan(id)
    /\ UNCHANGED calls

NetworkStatusCall ==
    /\ ops < MaxOps
    /\ get_network_status
    /\ UNCHANGED calls

Next ==
    \/ Update
    \/ Optimize
    \/ Coordinate
    \/ Detect
    \/ CorridorStatusCall
    \/ SignalPlanCall
    \/ NetworkStatusCall

Spec == Init /\ [][Next]_vars

----------------------------------------------------------------------------
\* Specification of the calculations: one update_intersection_data with a
\* reading drawn from the value grids below, then one call that computes on
\* the stored reading.

\* Queue lengths: empty, short, around the 0.35 share, and long enough for
\* the green time to reach max_green.
CalcQueueVals == {0, 10, 25, 35, 120}

CalcQueues == [Directions -> CalcQueueVals]

\* Queues with directions that hold exactly 0.35 of the total.
ShareQueues ==
    { [north |-> 7, south |-> 13, east |-> 0, west |-> 0],
      [north |-> 7, south |-> 7, east |-> 6, west |-> 0],
      [north |-> 0, south |-> 30, east |-> 35, west |-> 35] }

\* <<congestion, aqi>>: one point per branch of the strategy chain.
StrategyPoints == {<<Pct(65), 160>>, <<Pct(65), 40>>, <<Pct(20), 120>>, <<Pct(20), 40>>}

\* congestion and AQI on both sides of every threshold the code compares
\* them with.
CongestionVals == {Pct(c) : c \in {30, 31, 50, 51, 60, 61, 70, 71}}

AqiVals == {50, 51, 100, 101, 150, 151, 200, 201}

\* Queues whose maximum is on both sides of the classifier's thresholds.
BoundaryQueues ==
    { [north |-> 0, south |-> 0, east |-> 0, west |-> 0],
      [north |-> 30, south |-> 0, east |-> 0, west |-> 0],
      [north |-> 0, south |-> 31, east |-> 0, west |-> 0],
      [north |-> 0, south |-> 0, east |-> 50, west |-> 0],
      [north |-> 0, south |-> 0, east |-> 0, west |-> 51] }

CalcReadings ==
    { [traffic_data |-> [queues |-> q, avg_speed |-> 30, congestion |-> p[1]],
       pollution_level |-> p[2]] : q \in CalcQueues \cup ShareQueues, p \in StrategyPoints }
    \cup
    { [traffic_data |-> [queues |-> b[1], avg_speed |-> 30, congestion |-> b[2]],
       pollution_level |-> b[3]] :
          b \in BoundaryQueues \X CongestionVals \X AqiVals }
    \cup Readings

CalcUpdate ==
    /\ ops = 0
    /\ \E id \in AllIds, r \in CalcReadings :
          update_intersection_data(id, r.traffic_data, r.pollution_level)
    /\ UNCHANGED calls

CalcOptimize ==
    /\ ops = 1
    /\ \E id \in AllIds : optimize_signal_timing(id)
    /\ UNCHANGED calls

NextCalc ==
    \/ CalcUpdate
    \/ CalcOptimize

SpecCalc == Init /\ [][NextCalc]_vars

----------------------------------------------------------------------------
\* The green wave on its own: one call of coordinate_green_wave on the
\* initial registry, for every ID list up to MaxCorridorLen over two known
\* IDs and an unknown one, and every speed of WaveSpeeds.

MaxCorridorLen == 3

WaveIds == {"INT_001", "INT_002", "INT_999"}

WaveLists == UNION {[1..k -> WaveIds] : k \in 0..MaxCorridorLen}

WaveSpeeds == {0, 20, 30, 35, 40, 60}

WaveCoordinate ==
    /\ ops = 0
    /\ \E ids \in WaveLists, speed \in WaveSpeeds :
          coordinate_green_wave(ids, speed)
    /\ UNCHANGED calls

NextWave == WaveCoordinate

SpecWave == Init /\ [][NextWave]_vars

----------------------------------------------------------------------------
\* The Conflict Detector on its own: one reading stored, then one call of
\* detect_conflicts.  The readings put every queue, the congestion and the
\* AQI on both sides of each threshold the rules compare them with.

DetectQueues ==
    [Directions -> {0, 21, 101, 151}]
    \cup [Directions -> {20, 21}]
    \cup { [d \in Directions |-> IF d = one THEN q ELSE 0] :
              one \in Directions, q \in {100, 120, 150} }

\* 70.0, 70.01 and 71.0 percent.
DetectCongestion == {Pct(70), Pct(70) + 1, Pct(71)}

DetectReadings ==
    { [traffic_data |-> [queues |-> q, avg_speed |-> 30, congestion |-> c],
       pollution_level |-> a] :
          q \in DetectQueues, c \in DetectCongestion, a \in {40, 200, 201} }

DetectUpdate ==
    /\ ops = 0
    /\ \E id \in {"INT_001", "INT_999"}, r \in DetectReadings :
          update_intersection_data(id, r.traffic_data, r.pollution_level)
    /\ UNCHANGED calls

DetectCall ==
    /\ ops = 1
    /\ \E id \in {"INT_001", "INT_002", "INT_999"} : detect_conflicts(id)
    /\ UNCHANGED calls

NextDetect ==
    \/ DetectUpdate
    \/ DetectCall

SpecDetect == Init /\ [][NextDetect]_vars

----------------------------------------------------------------------------
\* The aggregate reports: up to MaxOps readings stored on three of the
\* intersections, then one call of get_corridor_status or get_network_status.

\* Readings, and two with a congestion between two tenths of a percent and
\* nothing past a conflict threshold: 60.04 and 60.07.
NetReadings ==
    Readings
    \cup { [traffic_data |-> [queues |-> [north |-> 10, south |-> 0, east |-> 0, west |-> 0],
                              avg_speed |-> 30, congestion |-> Pct(60) + c],
            pollution_level |-> 90] : c \in {4, 7} }

NetUpdate ==
    /\ ops < MaxOps
    /\ last.op \in {"init", "update_intersection_data"}
    /\ \E id \in {"INT_001", "INT_002", "INT_003"}, r \in NetReadings :
          update_intersection_data(id, r.traffic_data, r.pollution_level)
    /\ UNCHANGED calls

NetCorridorStatus ==
    /\ last.op \in {"init", "update_intersection_data"}
    /\ \E ids \in CorridorLists : get_corridor_status(ids)
    /\ UNCHANGED calls

NetNetworkStatus ==
    /\ last.op \in {"init", "update_intersection_data"}
    /\ get_network_status
    /\ UNCHANGED calls

NextNet ==
    \/ NetUpdate
    \/ NetCorridorStatus
    \/ NetNetworkStatus

SpecNet == Init /\ [][NextNet]_vars

----------------------------------------------------------------------------
\* update_intersection_data called by two callers at once.  The method
\* takes no lock, so the statements of the two calls interleave; each
\* statement (one attribute assignment) is taken as one step, which is
\* coarser than the interpreter's switching between bytecodes.

\* The attributes the method assigns before the priority, in its order.
update_fields ==
    <<"queue_length_north", "queue_length_south", "queue_length_east",
      "queue_length_west", "avg_speed", "avg_congestion", "local_aqi">>

\* The value a call assigns to one attribute.
AssignedValue(field, traffic_data, pollution_level) ==
    LET queues == Get(traffic_data, "queues", [k \in {} |-> 0])
    IN CASE field = "queue_length_north" -> Get(queues, "north", 0)
         [] field = "queue_length_south" -> Get(queues, "south", 0)
         [] field = "queue_length_east" -> Get(queues, "east", 0)
         [] field = "queue_length_west" -> Get(queues, "west", 0)
         [] field = "avg_speed" -> Get(traffic_data, "avg_speed", 30)
         [] field = "avg_congestion" -> Get(traffic_data, "congestion", Pct(50))
         [] field = "local_aqi" -> pollution_level

\* The statement after the assignment of update_fields[k].
AfterField(k) ==
    IF k < Len(update_fields) THEN update_fields[k + 1] ELSE "priority_level"

\* A caller enters the method: the registry lookup, and the early return for
\* an unknown ID.
ConcCall ==
    \E t \in Callers, id \in {"INT_001", "INT_999"}, r \in Readings :
        /\ calls[t].pc = "idle"
        /\ calls' = [calls EXCEPT ![t] =
              [pc |-> IF id \in DOMAIN intersections
                      THEN update_fields[1] ELSE "return",
               intersection_id |-> id,
               traffic_data |-> r.traffic_data,
               pollution_level |-> r.pollution_level,
               ret |-> id \in DOMAIN intersections]]
        /\ UNCHANGED <<intersections, coordination_offsets, last, pre, ops>>

\* One of the seven attribute assignments.
ConcAssign ==
    \E t \in Callers, k \in 1..Len(update_fields) :
        /\ calls[t].pc = update_fields[k]
        /\ intersections' =
              [intersections EXCEPT ![calls[t].intersection_id][update_fields[k]] =
                  AssignedValue(update_fields[k], calls[t].traffic_data,
                                calls[t].pollution_level)]
        /\ calls' = [calls EXCEPT ![t].pc = AfterField(k)]
        /\ UNCHANGED <<coordination_offsets, last, pre, ops>>

\* intersection.priority_level = self._determine_priority(...): the
\* congestion and the queues are read back from the intersection, the AQI is
\* the call's own argument.
ConcPriority ==
    \E t \in Callers :
        /\ calls[t].pc = "priority_level"
        /\ LET intersection == intersections[calls[t].intersection_id]
           IN intersections' =
                 [intersections EXCEPT ![calls[t].intersection_id].priority_level =
                     _determine_priority(intersection.avg_congestion,
                                         calls[t].pollution_level,
                                         MaxQueue(intersection))]
        /\ calls' = [calls EXCEPT ![t].pc = "return"]
        /\ UNCHANGED <<coordination_offsets, last, pre, ops>>

ConcReturn ==
    \E t \in Callers :
        /\ calls[t].pc = "return"
        /\ calls' = [calls EXCEPT ![t].pc = "done"]
        /\ last' = [op |-> "update_intersection_data",
                    intersection_id |-> calls[t].intersection_id,
                    traffic_data |-> calls[t].traffic_data,
                    pollution_level |-> calls[t].pollution_level,
                    ret |-> calls[t].ret]
        /\ ops' = ops + 1
        /\ UNCHANGED <<intersections, coordination_offsets, pre>>

NextConc ==
    \/ ConcCall
    \/ ConcAssign
    \/ ConcPriority
    \/ ConcReturn

SpecConc == Init /\ [][NextConc]_vars

----------------------------------------------------------------------------
\* Properties

\* The call recorded in last was op on an ID the registry held.
CalledKnown(op) ==
    /\ last.op = op
    /\ last.intersection_id \in DOMAIN pre.intersections

\* The call recorded in last was op on an ID the registry did not hold.
CalledUnknown(op) ==
    /\ last.op = op
    /\ last.intersection_id \notin DOMAIN pre.intersections

\* low < normal < high < critical
Rank(tier) ==
    CASE tier = "low" -> 0
      [] tier = "normal" -> 1
      [] tier = "high" -> 2
      [] tier = "critical" -> 3

\* C1: in every reachable state each intersection's priority_level is the
\* Priority Classifier's value for its stored avg_congestion, its stored
\* local_aqi and the maximum of its four stored queue lengths.
C1_PriorityMatchesStoredData ==
    \A id \in DOMAIN intersections :
        intersections[id].priority_level =
            _determine_priority(intersections[id].avg_congestion,
                                intersections[id].local_aqi,
                                MaxQueue(intersections[id]))

\* An intersection was updated to critical and a green wave was then
\* coordinated through it.
C1_Witness ==
    /\ last.op = "coordinate_green_wave"
    /\ \E id \in DOMAIN coordination_offsets :
          /\ intersections[id].priority_level = "critical"
          /\ intersections[id].queue_length_north = 120

\* C2: update_intersection_data with an ID that is not in the registry
\* returns False, creates no intersection and leaves all intersections, all
\* signals and the offset table as they were.
C2_UnknownUpdateChangesNothing ==
    CalledUnknown("update_intersection_data") =>
        /\ last.ret = FALSE
        /\ DOMAIN intersections = DOMAIN pre.intersections
        /\ intersections = pre.intersections
        /\ coordination_offsets = pre.coordination_offsets

\* An unknown ID was updated when the registry already held offsets.
C2_Witness ==
    /\ CalledUnknown("update_intersection_data")
    /\ last.ret = FALSE
    /\ DOMAIN coordination_offsets # {}

\* traffic_data supplies all four queues, avg_speed and congestion.
SuppliesAll(traffic_data) ==
    /\ {"queues", "avg_speed", "congestion"} \subseteq DOMAIN traffic_data
    /\ Directions \subseteq DOMAIN traffic_data.queues

\* C3: a successful update_intersection_data that supplies all four queues,
\* avg_speed and congestion returns True and leaves exactly the supplied
\* values in the seven metric fields, whatever they held before.
C3_FullOverwrite ==
    (CalledKnown("update_intersection_data") /\ SuppliesAll(last.traffic_data)) =>
        LET i == intersections[last.intersection_id]
            data == last.traffic_data
        IN /\ last.ret = TRUE
           /\ i.queue_length_north = data.queues.north
           /\ i.queue_length_south = data.queues.south
           /\ i.queue_length_east = data.queues.east
           /\ i.queue_length_west = data.queues.west
           /\ i.avg_speed = data.avg_speed
           /\ i.avg_congestion = data.congestion
           /\ i.local_aqi = last.pollution_level

\* A full update of an intersection that an earlier update had left with
\* larger values in every field.
C3_Witness ==
    /\ CalledKnown("update_intersection_data")
    /\ SuppliesAll(last.traffic_data)
    /\ LET old == pre.intersections[last.intersection_id]
           data == last.traffic_data
       IN /\ old.queue_length_north > data.queues.north
          /\ old.avg_speed # data.avg_speed
          /\ old.avg_congestion > data.congestion
          /\ old.local_aqi > last.pollution_level
          /\ old.local_aqi # Intersection.local_aqi

\* The maximum of the four queues a traffic_data supplies.
SuppliedMaxQueue(traffic_data) ==
    LET queues == Get(traffic_data, "queues", [k \in {} |-> 0])
    IN Max2(Max2(Get(queues, "north", 0), Get(queues, "south", 0)),
            Max2(Get(queues, "east", 0), Get(queues, "west", 0)))

\* C4: for the (congestion, aqi, max_queue) of an update the classifier
\* returns exactly one tier, the first that matches top-down: critical if
\* congestion > 70 or aqi > 150 or max_queue > 50; else high if
\* congestion > 50 or aqi > 100 or max_queue > 30; else normal if
\* congestion > 30 or aqi > 50; else low.  Queues {35,25,20,28}, congestion
\* 53, aqi 120 give high.
C4_ClassifierTiers ==
    CalledKnown("update_intersection_data") =>
        LET congestion == Get(last.traffic_data, "congestion", Pct(50))
            aqi == last.pollution_level
            max_queue == SuppliedMaxQueue(last.traffic_data)
            tier == intersections[last.intersection_id].priority_level
        IN /\ tier \in Tiers
           /\ (tier = "critical") <=>
                 (congestion > Pct(70) \/ aqi > 150 \/ max_queue > 50)
           /\ (tier = "high") <=>
                 /\ ~(congestion > Pct(70) \/ aqi > 150 \/ max_queue > 50)
                 /\ (congestion > Pct(50) \/ aqi > 100 \/ max_queue > 30)
           /\ (tier = "normal") <=>
                 /\ ~(congestion > Pct(50) \/ aqi > 100 \/ max_queue > 30)
                 /\ ~(congestion > Pct(70) \/ aqi > 150 \/ max_queue > 50)
                 /\ (congestion > Pct(30) \/ aqi > 50)
           /\ (congestion = Pct(53) /\ aqi = 120 /\ max_queue = 35) => tier = "high"

\* The dashboard's scenario for INT_001 has been applied and classified high.
C4_Witness ==
    /\ CalledKnown("update_intersection_data")
    /\ SuppliesAll(last.traffic_data)
    /\ last.traffic_data.queues =
          [north |-> 35, south |-> 25, east |-> 20, west |-> 28]
    /\ last.traffic_data.congestion = Pct(53)
    /\ last.pollution_level = 120
    /\ intersections[last.intersection_id].priority_level = "high"

\* max_queue values on both sides of the classifier's thresholds.
MaxQueueVals == {0, 30, 31, 50, 51, 120}

\* C5: the classifier is monotone: raising one of congestion, aqi, max_queue
\* above the classified values, the other two held fixed, never gives a
\* lower tier than the one the update stored.
C5_ClassifierMonotone ==
    CalledKnown("update_intersection_data") =>
        LET i == intersections[last.intersection_id]
            congestion == i.avg_congestion
            aqi == i.local_aqi
            max_queue == MaxQueue(i)
            tier == i.priority_level
        IN /\ \A c \in CongestionVals : c >= congestion =>
                 Rank(_determine_priority(c, aqi, max_queue)) >= Rank(tier)
           /\ \A a \in AqiVals : a >= aqi =>
                 Rank(_determine_priority(congestion, a, max_queue)) >= Rank(tier)
           /\ \A q \in MaxQueueVals : q >= max_queue =>
                 Rank(_determine_priority(congestion, aqi, q)) >= Rank(tier)

\* A reading classified low, at the edge of normal, for which raising the
\* congestion alone reaches critical.
C5_Witness ==
    /\ CalledKnown("update_intersection_data")
    /\ LET i == intersections[last.intersection_id]
       IN /\ i.priority_level = "low"
          /\ i.local_aqi = 50
          /\ i.avg_congestion = Pct(30)
          /\ \E c \in CongestionVals :
                _determine_priority(c, i.local_aqi, MaxQueue(i)) = "critical"

\* C6: optimize_signal_timing chooses the strategy from the stored
\* (local_aqi, avg_congestion) by first match (emission_priority if aqi > 150
\* and congestion > 60; else flow_priority if congestion > 60; else
\* emission_priority if aqi > 100; else balanced) and reports
\* (emission_reduction, flow_improvement) = (18, -5), (5, 15), (10, 8).
C6_StrategyTable ==
    CalledKnown("optimize_signal_timing") =>
        LET aqi == intersections[last.intersection_id].local_aqi
            congestion == intersections[last.intersection_id].avg_congestion
            plan == last.ret
        IN /\ plan.strategy =
                 IF aqi > 150 /\ congestion > Pct(60) THEN "emission_priority"
                 ELSE IF congestion > Pct(60) THEN "flow_priority"
                 ELSE IF aqi > 100 THEN "emission_priority"
                 ELSE "balanced"
           /\ plan.strategy = "emission_priority" =>
                 plan.emission_reduction = 18 /\ plan.flow_improvement = -5
           /\ plan.strategy = "flow_priority" =>
                 plan.emission_reduction = 5 /\ plan.flow_improvement = 15
           /\ plan.strategy = "balanced" =>
                 plan.emission_reduction = 10 /\ plan.flow_improvement = 8

\* The first branch was taken at its boundary: aqi 151 and congestion 61.
C6_Witness ==
    /\ CalledKnown("optimize_signal_timing")
    /\ last.ret.strategy = "emission_priority"
    /\ intersections[last.intersection_id].local_aqi = 151
    /\ intersections[last.intersection_id].avg_congestion = Pct(61)

\* C7: after optimize_signal_timing succeeds, every direction's green_time,
\* in the returned plan and in the stored Signal, lies in [15, 80], the
\* Signal's min_green and max_green.
C7_GreenWithinBounds ==
    CalledKnown("optimize_signal_timing") =>
        \A d \in Directions :
            LET signal == intersections[last.intersection_id].signals[d]
                timing == last.ret.signal_timings[d]
            IN /\ timing.green_time >= 15
               /\ timing.green_time <= 80
               /\ signal.green_time >= signal.min_green
               /\ signal.green_time <= signal.max_green
               /\ signal.min_green = 15
               /\ signal.max_green = 80

\* One direction holds the whole queue under emission_priority, so that
\* 70 * 1.5 was cut to 80.
C7_Witness ==
    /\ CalledKnown("optimize_signal_timing")
    /\ last.ret.strategy = "emission_priority"
    /\ \E d \in Directions :
          /\ QueueLength(intersections[last.intersection_id], d) = 120
          /\ SumQueues(intersections[last.intersection_id]) = 120
          /\ intersections[last.intersection_id].signals[d].green_time = 80

\* C8: after optimize_signal_timing succeeds, the integer red_time stored and
\* returned for every direction equals 120 - green_time - 5 for the integer
\* green_time stored and returned.
C8_RedFromGreen ==
    CalledKnown("optimize_signal_timing") =>
        \A d \in Directions :
            LET signal == intersections[last.intersection_id].signals[d]
                timing == last.ret.signal_timings[d]
            IN /\ timing.red_time = 120 - timing.green_time - 5
               /\ signal.red_time = 120 - signal.green_time - 5

\* C9: after optimize_signal_timing succeeds, each of the four Signals has
\* green_time + red_time + yellow_time + all_red_time = cycle_time.
C9_CycleConsistent ==
    CalledKnown("optimize_signal_timing") =>
        \A d \in Directions :
            LET signal == intersections[last.intersection_id].signals[d]
            IN signal.green_time + signal.red_time + signal.yellow_time
                  + signal.all_red_time = signal.cycle_time

\* C10: optimize_signal_timing with an ID that is not in the registry
\* returns the not-found error and changes no Signal and no other state.
C10_UnknownOptimizeChangesNothing ==
    CalledUnknown("optimize_signal_timing") =>
        /\ DOMAIN last.ret = {"error"}
        /\ last.ret.error = "Intersection not found"
        /\ DOMAIN intersections = DOMAIN pre.intersections
        /\ intersections = pre.intersections
        /\ coordination_offsets = pre.coordination_offsets

\* An unknown ID was optimised after an optimisation had rewritten the
\* timings of a known one.
C10_Witness ==
    /\ CalledUnknown("optimize_signal_timing")
    /\ DOMAIN last.ret = {"error"}
    /\ \E id \in DOMAIN intersections :
          intersections[id].signals["north"].green_time # TrafficSignal.green_time

\* The last call was coordinate_green_wave and it returned a plan.
ReturnedPlan ==
    /\ last.op = "coordinate_green_wave"
    /\ "offsets_seconds" \in DOMAIN last.ret

\* The positions of the supplied list whose ID the registry held.
SuppliedKnown ==
    {i \in 1..Len(last.intersection_ids) :
        last.intersection_ids[i] \in DOMAIN pre.intersections}

\* C11: coordinate_green_wave returns the "need at least 2 intersections"
\* error whenever fewer than 2 of the supplied IDs are in the registry, also
\* when the list has two or more entries (stated for positive speeds).
C11_FewerThanTwoKnownIsError ==
    (/\ last.op = "coordinate_green_wave"
     /\ last.target_speed > 0
     /\ Cardinality(SuppliedKnown) < 2)
    => DOMAIN last.ret = {"error"}

\* C12: in every plan returned for a positive speed, the offsets of the
\* included intersections are non-decreasing in the order of the list, and
\* the intersection at the first position of the list has offset 0.
C12_OffsetsNonDecreasingFromZero ==
    (ReturnedPlan /\ last.target_speed > 0) =>
        LET ids == last.intersection_ids
            offsets == last.ret.offsets_seconds
        IN /\ \A i, j \in SuppliedKnown :
                 i < j => offsets[ids[i]] <= offsets[ids[j]]
           /\ 1 \in SuppliedKnown => offsets[ids[1]] = 0

\* C13: every plan reports stops_reduced_percent 12.0 and
\* emissions_reduced_percent 8.0, whatever the speed and the IDs.
C13_FixedReductions ==
    ReturnedPlan =>
        /\ last.ret.stops_reduced_percent_x10 = 120
        /\ last.ret.emissions_reduced_percent_x10 = 80

\* x10 is the value of 60 * hops / target_speed rounded to one decimal, in
\* tenths: it is within half a tenth of the quotient.
IsTravelTime(x10, hops, target_speed) ==
    LET diff == x10 * target_speed - 600 * hops
    IN 2 * diff <= target_speed /\ -2 * diff <= target_speed

\* C14 as stated: expected_travel_time_minutes is (1.0 * (N - 1) /
\* target_speed) * 60 with N the number of supplied IDs found in the
\* registry.
C14_TravelTimeOverFound ==
    ReturnedPlan =>
        IsTravelTime(last.ret.expected_travel_time_minutes_x10,
                     Cardinality(SuppliedKnown) - 1, last.target_speed)

\* C14, amended: expected_travel_time_minutes is (1.0 * (L - 1) /
\* target_speed) * 60 rounded to one decimal, with L the length of the
\* supplied list, unknown IDs counted.
C14_TravelTimeOverSupplied ==
    ReturnedPlan =>
        IsTravelTime(last.ret.expected_travel_time_minutes_x10,
                     Len(last.intersection_ids) - 1, last.target_speed)

\* A plan for a list of three IDs of which two are known, at 35 km/h: 3.4
\* minutes.
C14_Witness ==
    /\ ReturnedPlan
    /\ Len(last.intersection_ids) = 3
    /\ Cardinality(SuppliedKnown) = 2
    /\ last.target_speed = 35
    /\ last.ret.expected_travel_time_minutes_x10 = 34

\* The findings of a list, each reduced to its type, its direction (if it
\* has one) and its severity.
Findings(conflicts) ==
    { [type |-> conflicts[k].type,
       direction |-> IF "direction" \in DOMAIN conflicts[k]
                     THEN conflicts[k].direction ELSE "none",
       severity |-> conflicts[k].severity] : k \in 1..Len(conflicts) }

\* C15: detect_conflicts on a known intersection returns exactly the
\* findings of four independent rules: one queue_overflow per direction with
\* queue > 100 (critical if queue > 150, else high); one
\* opposing_flows_blocked (high) iff north and south are both > 20 or east
\* and west are both > 20; one high_congestion (high) iff avg_congestion >
\* 70; one air_quality_emergency (critical) iff local_aqi > 200.  A single
\* queue of 120 with all else below the thresholds gives exactly one finding,
\* a queue_overflow of severity high.
C15_FourIndependentRules ==
    CalledKnown("detect_conflicts") =>
        LET i == pre.intersections[last.intersection_id]
            over == {d \in Directions : QueueLength(i, d) > 100}
            opposing ==
                \/ QueueLength(i, "north") > 20 /\ QueueLength(i, "south") > 20
                \/ QueueLength(i, "east") > 20 /\ QueueLength(i, "west") > 20
            expected ==
                { [type |-> "queue_overflow", direction |-> d,
                   severity |-> IF QueueLength(i, d) > 150 THEN "critical" ELSE "high"] :
                      d \in over }
                \cup (IF opposing
                      THEN {[type |-> "opposing_flows_blocked", direction |-> "none",
                             severity |-> "high"]}
                      ELSE {})
                \cup (IF i.avg_congestion > Pct(70)
                      THEN {[type |-> "high_congestion", direction |-> "none",
                             severity |-> "high"]}
                      ELSE {})
                \cup (IF i.local_aqi > 200
                      THEN {[type |-> "air_quality_emergency", direction |-> "none",
                             severity |-> "critical"]}
                      ELSE {})
        IN /\ Findings(last.ret) = expected
           /\ Len(last.ret) = Cardinality(expected)

\* North holds 120 vehicles, nothing else is past a threshold, and the call
\* returned the single finding queue_overflow / north / high.
C15_Witness ==
    /\ CalledKnown("detect_conflicts")
    /\ LET i == pre.intersections[last.intersection_id]
       IN /\ i.queue_length_north = 120
          /\ i.queue_length_south = 0 /\ i.queue_length_east = 0
          /\ i.queue_length_west = 0
          /\ i.avg_congestion = Pct(70) /\ i.local_aqi = 200
    /\ Len(last.ret) = 1
    /\ last.ret[1].type = "queue_overflow"
    /\ last.ret[1].direction = "north"
    /\ last.ret[1].severity = "high"

\* The intersection with one direction's queue replaced.
WithQueue(intersection, direction, queue) ==
    CASE direction = "north" -> [intersection EXCEPT !.queue_length_north = queue]
      [] direction = "south" -> [intersection EXCEPT !.queue_length_south = queue]
      [] direction = "east" -> [intersection EXCEPT !.queue_length_east = queue]
      [] direction = "west" -> [intersection EXCEPT !.queue_length_west = queue]

\* Queue lengths past queue_capacity: just past it, and past 1.5 times it.
RaisedQueues == {101, 151}

\* C16: raising one direction's queue from a value <= 100 to a value > 100,
\* all else fixed, gives a result with a queue_overflow for that direction
\* and with every finding (type, direction, severity) returned before.
C16_MonotoneInQueue ==
    CalledKnown("detect_conflicts") =>
        LET i == pre.intersections[last.intersection_id]
        IN \A d \in Directions, q \in RaisedQueues :
              QueueLength(i, d) <= 100 =>
                  LET after == Findings(Conflicts(WithQueue(i, d, q)))
                  IN /\ \E f \in after : f.type = "queue_overflow" /\ f.direction = d
                     /\ Findings(last.ret) \subseteq after

\* North and south hold 21 vehicles each and congestion and AQI are past
\* their thresholds: three findings were returned, and east can be raised.
C16_Witness ==
    /\ CalledKnown("detect_conflicts")
    /\ LET i == pre.intersections[last.intersection_id]
       IN /\ i.queue_length_north = 21 /\ i.queue_length_south = 21
          /\ i.queue_length_east = 0
          /\ i.avg_congestion > Pct(70) /\ i.local_aqi > 200
    /\ Len(last.ret) = 3

\* The supplied IDs the registry held, one entry per position of the list.
SuppliedKnownIds ==
    SelectSeq(last.corridor_intersections,
              LAMBDA id : id \in DOMAIN pre.intersections)

\* The sum of the stored avg_congestion (hundredths of a percent) over the
\* known supplied IDs.
SuppliedCongestion ==
    SumSeq([k \in 1..Len(SuppliedKnownIds) |->
                pre.intersections[SuppliedKnownIds[k]].avg_congestion])

\* The parts of C17 that do not involve the average: conflicts_detected is
\* the sum, over the known supplied IDs, of the number of findings
\* detect_conflicts returns for each; with no known ID the averages and the
\* conflicts are zero and optimization_needed is false.
CorridorCounts ==
    LET known == SuppliedKnownIds
    IN /\ last.ret.conflicts_detected =
              SumSeq([k \in 1..Len(known) |-> Len(DetectConflicts(known[k]))])
       /\ Len(known) = 0 =>
              /\ last.ret.avg_congestion_x10 = 0
              /\ last.ret.avg_aqi = 0
              /\ last.ret.conflicts_detected = 0
              /\ last.ret.optimization_needed = FALSE

\* C17 as stated: get_corridor_status reports conflicts_detected as the sum
\* of the findings of the known supplied IDs, and optimization_needed is true
\* exactly when conflicts_detected > 0 or the average avg_congestion of the
\* known supplied intersections is > 60.
C17_OptimizationFromAverage ==
    last.op = "get_corridor_status" =>
        /\ CorridorCounts
        /\ Len(SuppliedKnownIds) > 0 =>
              (last.ret.optimization_needed <=>
                  \/ last.ret.conflicts_detected > 0
                  \/ SuppliedCongestion > Pct(60) * Len(SuppliedKnownIds))

\* C17, amended: as above, with optimization_needed true exactly when
\* conflicts_detected > 0 or the reported avg_congestion, which is the
\* average rounded to one decimal, is > 60.
C17_OptimizationFromReportedAverage ==
    last.op = "get_corridor_status" =>
        /\ CorridorCounts
        /\ Len(SuppliedKnownIds) > 0 =>
              LET n == Len(SuppliedKnownIds)
                  diff == last.ret.avg_congestion_x10 * 10 * n - SuppliedCongestion
              IN /\ diff <= 5 * n /\ -diff <= 5 * n
                 /\ last.ret.optimization_needed <=>
                       \/ last.ret.conflicts_detected > 0
                       \/ last.ret.avg_congestion_x10 > 600

\* A corridor of one intersection at 60.04 percent and without conflicts:
\* avg_congestion is reported as 60.0 and optimization_needed is false.
C17_Witness ==
    /\ last.op = "get_corridor_status"
    /\ Len(SuppliedKnownIds) = 1
    /\ SuppliedCongestion = Pct(60) + 4
    /\ last.ret.avg_congestion_x10 = 600
    /\ last.ret.conflicts_detected = 0
    /\ last.ret.optimization_needed = FALSE

\* C18: get_network_status reports total_intersections as the number of
\* registry entries, total_vehicles_queued as the sum of the four queues of
\* all of them, critical_intersections as the number with priority_level
\* critical and high_priority_intersections as the number with critical or
\* high, so that critical <= high_priority <= total.
C18_NetworkCounts ==
    last.op = "get_network_status" =>
        LET ids == DOMAIN pre.intersections
            queued == [id \in ids |->
                          pre.intersections[id].queue_length_north
                          + pre.intersections[id].queue_length_south
                          + pre.intersections[id].queue_length_east
                          + pre.intersections[id].queue_length_west]
        IN /\ last.ret.total_intersections = Cardinality(ids)
           /\ last.ret.total_vehicles_queued =
                 SumSeq([k \in 1..Len(default_intersections) |->
                            queued[default_intersections[k]]])
           /\ last.ret.critical_intersections =
                 Cardinality({id \in ids :
                     pre.intersections[id].priority_level = "critical"})
           /\ last.ret.high_priority_intersections =
                 Cardinality({id \in ids :
                     pre.intersections[id].priority_level \in {"critical", "high"}})
           /\ last.ret.critical_intersections <= last.ret.high_priority_intersections
           /\ last.ret.high_priority_intersections <= last.ret.total_intersections

\* One intersection is critical and another high, with vehicles queued.
C18_Witness ==
    /\ last.op = "get_network_status"
    /\ last.ret.total_intersections = 5
    /\ last.ret.critical_intersections = 1
    /\ last.ret.high_priority_intersections = 2
    /\ last.ret.total_vehicles_queued = 228

\* The four operations that only report.
ReadOperations ==
    {"detect_conflicts", "get_corridor_status", "get_network_status",
     "generate_signal_plan"}

\* C19: detect_conflicts, get_corridor_status, get_network_status and
\* generate_signal_plan leave every intersection (all its fields and all its
\* signals' fields) and the offset table as they were, for known and unknown
\* IDs alike, and detect_conflicts on an unknown ID returns the empty list.
C19_ReadsChangeNothing ==
    /\ last.op \in ReadOperations =>
          /\ intersections = pre.intersections
          /\ coordination_offsets = pre.coordination_offsets
    /\ CalledUnknown("detect_conflicts") => last.ret = << >>

\* detect_conflicts was called with an unknown ID on a registry a green wave
\* had written offsets to.
C19_Witness ==
    /\ CalledUnknown("detect_conflicts")
    /\ last.ret = << >>
    /\ DOMAIN pre.coordination_offsets # {}
    /\ intersections = pre.intersections

\* C20: no operation fails other than by its not-found or
\* need-at-least-2-intersections result: coordinate_green_wave with two or
\* more IDs returns a plan or that error for every target speed, 0 included,
\* and optimize_signal_timing returns a plan when all four queues are 0.
C20_NoOtherFailure ==
    /\ last.op \in (ReadOperations \ {"detect_conflicts"})
                   \cup {"coordinate_green_wave", "optimize_signal_timing"} =>
          "raised" \notin DOMAIN last.ret
    /\ (/\ last.op = "coordinate_green_wave"
        /\ Len(last.intersection_ids) >= 2) =>
          \/ "offsets_seconds" \in DOMAIN last.ret
          \/ DOMAIN last.ret = {"error"}
    /\ (/\ CalledKnown("optimize_signal_timing")
        /\ SumQueues(pre.intersections[last.intersection_id]) = 0) =>
          "signal_timings" \in DOMAIN last.ret

\* C21: when two update_intersection_data calls for the same intersection
\* run concurrently, the intersection ends in the state that one of the two
\* calls produces when run alone: queues, avg_speed, avg_congestion and
\* local_aqi all from the same call, priority_level the classifier's result
\* for them.
C21_LastWriteWins ==
    (/\ \A t \in Callers : calls[t].pc = "done"
     /\ \A t \in Callers : calls[t].intersection_id = "INT_001")
    => \E t \in Callers :
          intersections["INT_001"] =
              Updated(pre.intersections["INT_001"], calls[t].traffic_data,
                      calls[t].pollution_level)

\* C22: after any sequence of operations the registry holds exactly the
\* intersections created at initialization, INT_001 to INT_005, each with
\* exactly the four signals north, south, east and west.
C22_RegistryFixed ==
    /\ DOMAIN intersections =
          {"INT_001", "INT_002", "INT_003", "INT_004", "INT_005"}
    /\ \A id \in DOMAIN intersections :
          DOMAIN intersections[id].signals = {"north", "south", "east", "west"}

\* Two calls were made, the second with an ID the registry does not hold,
\* after a call that changed the registry.
C22_Witness ==
    /\ ops = 2
    /\ last.op \in {"update_intersection_data", "optimize_signal_timing",
                    "generate_signal_plan", "detect_conflicts"}
    /\ last.intersection_id = "INT_999"
    /\ pre.intersections # [id \in IntersectionIds |-> Intersection]
    /\ DOMAIN intersections = IntersectionIds

\* C23: for a list of at least 2 IDs and a positive speed, the known ID at
\* list position i (counted from 0, unknown IDs counted) gets the offset
\* floor(i * 60 / target_speed), and the returned offsets table holds exactly
\* the known IDs of the list.
C23_OffsetByListPosition ==
    (ReturnedPlan /\ last.target_speed > 0) =>
        LET ids == last.intersection_ids
            offsets == last.ret.offsets_seconds
        IN /\ DOMAIN offsets = {ids[i] : i \in SuppliedKnown}
           /\ \A i \in SuppliedKnown :
                 offsets[ids[i]] = (60 * (i - 1)) \div last.target_speed

\* An intersection with every signal's adaptive_offset replaced.
WithOffset(intersection, offset) ==
    [intersection EXCEPT !.signals =
        [d \in DOMAIN intersection.signals |->
            [intersection.signals[d] EXCEPT !.adaptive_offset = offset]]]

\* C24: a coordinate_green_wave that returns a plan sets, for each known ID
\* of the list, the adaptive_offset of all four signals and the entry of the
\* offset table to that ID's returned offset, and changes nothing else (no
\* queue, metric, priority or timing field, no other intersection, no other
\* table entry); update, optimize, detect and the status and plan reports
\* never change an adaptive_offset.
C24_GreenWaveFrame ==
    /\ ReturnedPlan =>
          LET offsets == last.ret.offsets_seconds
          IN /\ DOMAIN offsets =
                   {last.intersection_ids[i] : i \in SuppliedKnown}
             /\ \A id \in DOMAIN intersections :
                   intersections[id] =
                       IF id \in DOMAIN offsets
                       THEN WithOffset(pre.intersections[id], offsets[id])
                       ELSE pre.intersections[id]
             /\ DOMAIN coordination_offsets =
                   DOMAIN pre.coordination_offsets \cup DOMAIN offsets
             /\ \A id \in DOMAIN coordination_offsets :
                   coordination_offsets[id] =
                       IF id \in DOMAIN offsets THEN offsets[id]
                       ELSE pre.coordination_offsets[id]
    /\ last.op \notin {"init", "coordinate_green_wave"} =>
          \A id \in DOMAIN intersections, d \in Directions :
              intersections[id].signals[d].adaptive_offset =
                  pre.intersections[id].signals[d].adaptive_offset

\* A plan was returned for an intersection whose data an earlier call had
\* changed, and it got a new, non-zero offset.
C24_Witness ==
    /\ ReturnedPlan
    /\ \E id \in DOMAIN last.ret.offsets_seconds :
          /\ last.ret.offsets_seconds[id] > 0
          /\ pre.intersections[id].signals["west"].adaptive_offset = 0
          /\ pre.intersections[id] # Intersection
          /\ intersections[id].signals["west"].adaptive_offset > 0

\* The last call was optimize_signal_timing on a known ID and returned a
\* plan.
ReturnedTimings ==
    /\ CalledKnown("optimize_signal_timing")
    /\ "signal_timings" \in DOMAIN last.ret

\* C25: a successful optimize_signal_timing(id) sets green_time, red_time
\* and cycle_time of the four signals of id to the values the returned plan
\* reports for the direction, and changes nothing else: not the queues,
\* avg_speed, avg_congestion, local_aqi or priority_level of id, no
\* adaptive_offset, not the offset table, no other intersection.
C25_OptimizeFrame ==
    ReturnedTimings =>
        LET id == last.intersection_id
            timings == last.ret.signal_timings
        IN /\ intersections[id] =
                 [pre.intersections[id] EXCEPT !.signals =
                     [d \in Directions |->
                         [pre.intersections[id].signals[d] EXCEPT
                             !.green_time = timings[d].green_time,
                             !.red_time = timings[d].red_time,
                             !.cycle_time = timings[d].cycle_time]]]
           /\ \A other \in DOMAIN intersections \ {id} :
                 intersections[other] = pre.intersections[other]
           /\ coordination_offsets = pre.coordination_offsets

\* The intersection had a non-zero adaptive_offset from a green wave, and the
\* call changed its green_time.
C25_Witness ==
    /\ ReturnedTimings
    /\ LET id == last.intersection_id
       IN /\ pre.intersections[id].signals["north"].adaptive_offset > 0
          /\ intersections[id].signals["north"].adaptive_offset > 0
          /\ intersections[id].signals["north"].green_time
                # pre.intersections[id].signals["north"].green_time
          /\ id \in DOMAIN coordination_offsets

\* base_green of the strategy a plan names.
NamedBaseGreen(strategy) ==
    CASE strategy = "emission_priority" -> 70
      [] strategy = "flow_priority" -> 60
      [] strategy = "balanced" -> 50

\* C26: after a successful optimize_signal_timing, every direction's
\* green_time is the integer part of clamp(base_green * (0.5 + queue / total),
\* 15, 80), where total = max(1, sum of the four queues) and base_green is 70,
\* 60 or 50 under emission_priority, flow_priority or balanced; with all
\* queues zero every direction gets base_green / 2, that is 35, 30 or 25.
C26_GreenIsIntegerPartOfClamp ==
    ReturnedTimings =>
        LET id == last.intersection_id
            queues == [d \in Directions |-> QueueLength(pre.intersections[id], d)]
            sum == queues["north"] + queues["south"] + queues["east"] + queues["west"]
            total == IF sum >= 1 THEN sum ELSE 1
            base_green == NamedBaseGreen(last.ret.strategy)
        IN \A d \in Directions :
              LET num == base_green * (total + 2 * queues[d])
                  den == 2 * total
                  clamped == IF num < 15 * den THEN 15 * den
                             ELSE IF num > 80 * den THEN 80 * den ELSE num
              IN /\ last.ret.signal_timings[d].green_time = clamped \div den
                 /\ intersections[id].signals[d].green_time = clamped \div den
                 /\ sum = 0 => intersections[id].signals[d].green_time * 2 = base_green

\* C27: in the plan of a successful optimize_signal_timing a direction is
\* flagged high exactly when its queue / max(1, sum of the queues) is above
\* 0.35, strictly, and normal otherwise; at most two directions are flagged
\* high, and none when all queues are zero.
C27_HighAboveShare ==
    ReturnedTimings =>
        LET id == last.intersection_id
            queues == [d \in Directions |-> QueueLength(pre.intersections[id], d)]
            sum == queues["north"] + queues["south"] + queues["east"] + queues["west"]
            total == IF sum >= 1 THEN sum ELSE 1
            timings == last.ret.signal_timings
            high == {d \in Directions : timings[d].priority = "high"}
        IN /\ \A d \in Directions :
                 /\ timings[d].priority \in {"high", "normal"}
                 /\ timings[d].priority = "high" <=> 100 * queues[d] > 35 * total
           /\ Cardinality(high) <= 2
           /\ sum = 0 => high = {}

\* Two directions hold exactly 0.35 of the total each and are normal.
C27_Witness ==
    /\ ReturnedTimings
    /\ LET id == last.intersection_id
           timings == last.ret.signal_timings
       IN \E d, e \in Directions :
             /\ d # e
             /\ QueueLength(pre.intersections[id], d) = 7
             /\ QueueLength(pre.intersections[id], e) = 7
             /\ SumQueues(pre.intersections[id]) = 20
             /\ timings[d].priority = "normal"
             /\ timings[e].priority = "normal"

\* C28: in every reachable state the four signals of an intersection carry
\* the same adaptive_offset: the intersection's entry in the coordination
\* offset table when it has one, and 0 when it has none.
C28_OffsetsMatchTable ==
    \A id \in DOMAIN intersections :
        \A d \in Directions :
            intersections[id].signals[d].adaptive_offset =
                IF id \in DOMAIN coordination_offsets
                THEN coordination_offsets[id] ELSE 0

\* A second green wave left out an intersection of the first: it keeps its
\* non-zero offset and its table entry, next to an intersection that never
\* was in a wave.
C28_Witness ==
    /\ last.op = "coordinate_green_wave"
    /\ "offsets_seconds" \in DOMAIN last.ret
    /\ \E id \in DOMAIN coordination_offsets \ DOMAIN last.ret.offsets_seconds :
          /\ coordination_offsets[id] > 0
          /\ intersections[id].signals["west"].adaptive_offset = coordination_offsets[id]
    /\ \E id \in DOMAIN intersections : id \notin DOMAIN coordination_offsets

\* C29: whenever detect_conflicts(id) returns a finding of type
\* queue_overflow, high_congestion or air_quality_emergency, the
\* priority_level of id is critical; opposing_flows_blocked alone does not
\* imply it.
C29_FindingsImplyCritical ==
    CalledKnown("detect_conflicts") =>
        ((\E k \in 1..Len(last.ret) :
              last.ret[k].type \in {"queue_overflow", "high_congestion",
                                    "air_quality_emergency"})
            => intersections[last.intersection_id].priority_level = "critical")

\* A queue of more than 100 vehicles is the only thing past a threshold:
\* the call returned the single finding queue_overflow and the intersection
\* is critical.
C29_Witness ==
    /\ CalledKnown("detect_conflicts")
    /\ Len(last.ret) = 1
    /\ last.ret[1].type = "queue_overflow"
    /\ intersections[last.intersection_id].local_aqi = 40
    /\ intersections[last.intersection_id].avg_congestion = Pct(70)
    /\ intersections[last.intersection_id].priority_level = "critical"

\* The state that shows opposing_flows_blocked does not imply critical: the
\* call returned that finding alone on an intersection of priority high.
C29_OpposingAloneOnHigh ==
    /\ CalledKnown("detect_conflicts")
    /\ Len(last.ret) = 1
    /\ last.ret[1].type = "opposing_flows_blocked"
    /\ intersections[last.intersection_id].priority_level = "high"

\* C30: whenever optimize_signal_timing returns a plan whose strategy is
\* emission_priority or flow_priority, the plan's urgency is critical or
\* high; a plan with urgency normal or low always has strategy balanced.
C30_StrategyNeedsUrgency ==
    ReturnedTimings =>
        /\ last.ret.strategy \in {"emission_priority", "flow_priority"}
              => last.ret.urgency \in {"critical", "high"}
        /\ last.ret.urgency \in {"normal", "low"} => last.ret.strategy = "balanced"
        /\ last.ret.urgency = intersections[last.intersection_id].priority_level

\* Congestion 61 with nothing else past a threshold: flow_priority on an
\* intersection of priority high.
C30_Witness ==
    /\ ReturnedTimings
    /\ last.ret.strategy = "flow_priority"
    /\ last.ret.urgency = "high"
    /\ intersections[last.intersection_id].avg_congestion = Pct(61)
    /\ intersections[last.intersection_id].local_aqi = 50

====
